---- MODULE Spec2Model ----
(***************************************************************************)
(* Response-field extraction of the Siglent SDG driver.                    *)
(*                                                                         *)
(* A Python str is a sequence of one-character strings.  A closure built   *)
(* by one of the factories is a record of its cells; applying it to a      *)
(* string is one step.  Python values that the closures return are tagged  *)
(* records: a str, None, the value of a caller-supplied transform, or a    *)
(* raised exception.                                                       *)
(***************************************************************************)
EXTENDS Integers, Sequences, FiniteSets

VARIABLES
    ext,        \* the closure under application: the cells its factory bound
    fields,     \* the tokens the instrument put after the command prefix
    arg,        \* the str the closure is applied to
    result,     \* what the application returned or raised, Unset while pending
    memo        \* the first completed application of this closure

vars == <<ext, fields, arg, result, memo>>

---------------------------------------------------------------------------
(* Bounds of the model *)

MaxTokens == 6
CmdPrefixLen == 1
MaxStrLen == 2
MaxRepeatTokens == 2

---------------------------------------------------------------------------
(* Python values *)

Str(s) == [tag |-> "str", val |-> s]
NoneV == [tag |-> "None", val |-> <<>>]
Raised(exc) == [tag |-> exc, val |-> <<>>]
Unset == [tag |-> "unset", val |-> <<>>]

Comma == ","

\* s[n:]
SliceFrom(s, n) == SubSeq(s, n + 1, Len(s))

\* s[:-n] for a literal negative stop -n; -0 is 0, so s[:-0] is s[:0]
SliceToMinus(s, n) == IF n = 0 THEN <<>> ELSE SubSeq(s, 1, Len(s) - n)

StartsWith(s, p) == Len(s) >= Len(p) /\ SubSeq(s, 1, Len(p)) = p

EndsWith(s, p) == Len(s) >= Len(p) /\ SubSeq(s, Len(s) - Len(p) + 1, Len(s)) = p

\* str.removesuffix
RemoveSuffix(s, suffix) ==
    IF suffix # <<>> /\ EndsWith(s, suffix)
    THEN SubSeq(s, 1, Len(s) - Len(suffix))
    ELSE s

\* Split as str.split() without a separator would do it: no empty tokens
RECURSIVE SplitDroppingEmpty(_)
SplitDroppingEmpty(s) ==
    IF \A i \in 1..Len(s) : s[i] # Comma
    THEN (IF s = <<>> THEN <<>> ELSE <<s>>)
    ELSE LET i == CHOOSE j \in 1..Len(s) :
                      s[j] = Comma /\ \A k \in 1..(j - 1) : s[k] # Comma
         IN (IF i = 1 THEN <<>> ELSE <<SubSeq(s, 1, i - 1)>>)
                \o SplitDroppingEmpty(SubSeq(s, i + 1, Len(s)))

\* s.split(","): always at least one token, the empty str for an empty s
RECURSIVE Split(_)
Split(s) ==
    IF \A i \in 1..Len(s) : s[i] # Comma
    THEN <<s>>
    ELSE LET i == CHOOSE j \in 1..Len(s) :
                      s[j] = Comma /\ \A k \in 1..(j - 1) : s[k] # Comma
         IN <<SubSeq(s, 1, i - 1)>> \o Split(SubSeq(s, i + 1, Len(s)))

\* ",".join(tokens), the instrument's formatting of its fields
RECURSIVE Join(_)
Join(tokens) ==
    IF tokens = <<>> THEN <<>>
    ELSE IF Len(tokens) = 1 THEN tokens[1]
    ELSE tokens[1] \o <<Comma>> \o Join(Tail(tokens))

---------------------------------------------------------------------------
(* Transforms *)

identity(x) == Str(x)

\* a caller-supplied `then` other than identity: some injective function
CallerThen(x) == [tag |-> "then", val |-> x]

ApplyThen(then, x) == IF then = "identity" THEN identity(x) ELSE CallerThen(x)

\* _sdg_response_fields.strip_unit(_suffix, then=then)(_s)
strip_unit(_suffix, then, _s) ==
    IF then = "identity"
    THEN Str(RemoveSuffix(_s, _suffix))
    ELSE ApplyThen(then, RemoveSuffix(_s, _suffix))

\* sdg.py strip_unit(unit, then=then)(value)
sdg_strip_unit(unit, then, value) ==
    LET len_unit == Len(unit)
        stripped == IF EndsWith(value, unit)
                    THEN SliceToMinus(value, len_unit)
                    ELSE value
    IN ApplyThen(then, stripped)

---------------------------------------------------------------------------
(* Pair scanning *)

\* group_by_two as zip_longest(..., fillvalue="") would do it
RECURSIVE group_by_two_padded(_)
group_by_two_padded(items) ==
    IF items = <<>> THEN <<>>
    ELSE IF Len(items) = 1 THEN <<(<<items[1], <<>>>>)>>
    ELSE <<(<<items[1], items[2]>>)>>
             \o group_by_two_padded(SubSeq(items, 3, Len(items)))

\* zip(*2 * (iter(list_),)) over the items an iterator still holds
RECURSIVE group_by_two(_)
group_by_two(items) ==
    IF Len(items) < 2 THEN <<>>
    ELSE <<(<<items[1], items[2]>>)>> \o group_by_two(SubSeq(items, 3, Len(items)))

\* find_first_by_key without the early return: the last match decides
RECURSIVE find_last_by_key(_, _, _, _)
find_last_by_key(search_key, items, transform_found, not_found) ==
    IF items = <<>> THEN not_found
    ELSE IF items[Len(items)][1] = search_key
         THEN [tag |-> IF transform_found = "identity" THEN "str" ELSE "then",
               val |-> items[Len(items)][2]]
         ELSE find_last_by_key(search_key, SubSeq(items, 1, Len(items) - 1),
                               transform_found, not_found)

RECURSIVE find_first_by_key(_, _, _, _)
find_first_by_key(search_key, items, transform_found, not_found) ==
    IF items = <<>> THEN not_found
    ELSE IF items[1][1] = search_key
         THEN ApplyThen(transform_found, items[1][2])
         ELSE find_first_by_key(search_key, Tail(items), transform_found, not_found)

\* takewhile_not as filter() would do it: the marker goes, the rest stays
RECURSIVE filter_not(_, _)
filter_not(_group, items) ==
    IF items = <<>> THEN <<>>
    ELSE (IF items[1] = _group THEN <<>> ELSE <<items[1]>>)
             \o filter_not(_group, Tail(items))

\* itertools.takewhile(lambda str: str != _group, items)
RECURSIVE takewhile_not(_, _)
takewhile_not(_group, items) ==
    IF items = <<>> \/ items[1] = _group THEN <<>>
    ELSE <<items[1]>> \o takewhile_not(_group, Tail(items))

\* ScanFor stepping over key/value pairs: only a token in key position matches
RECURSIVE ScanForKeysOnly(_, _)
ScanForKeysOnly(wanted, items) ==
    IF items = <<>> THEN [found |-> FALSE, rest |-> <<>>]
    ELSE IF items[1] = wanted THEN [found |-> TRUE, rest |-> Tail(items)]
    ELSE ScanForKeysOnly(wanted, SubSeq(items, 3, Len(items)))

\* what an iterator holds after `for x in it: if x == wanted: break`;
\* found is FALSE when the loop ran into its else branch
RECURSIVE ScanFor(_, _)
ScanFor(wanted, items) ==
    IF items = <<>> THEN [found |-> FALSE, rest |-> <<>>]
    ELSE IF items[1] = wanted THEN [found |-> TRUE, rest |-> Tail(items)]
    ELSE ScanFor(wanted, Tail(items))

---------------------------------------------------------------------------
(* The factories: each returns the closure's cells *)

extract_regular_field(_result_prefix_len, name, then, else_default) ==
    [fn |-> "extract_regular_field",
     _result_prefix_len |-> _result_prefix_len,
     name |-> name, then |-> then, else_default |-> else_default]

\* sdg.py: the closure also holds cmd_prefix_len of the enclosing method
extract_bswv_field(cmd_prefix_len, name, then, else_default) ==
    [fn |-> "extract_bswv_field",
     cmd_prefix_len |-> cmd_prefix_len,
     name |-> name, then |-> then, else_default |-> else_default]

\* the factory picks the result_func and, for a group-prefixed name, rebinds
\* name to what follows "<_group>,"
extract_regular_field_before_group_or_group_prefixed_field(_group, _result_prefix_len, name, then, else_default) ==
    IF ~StartsWith(name, _group \o <<Comma>>)
    THEN [fn |-> "before_group", _group |-> _group,
          _result_prefix_len |-> _result_prefix_len,
          name |-> name, then |-> then, else_default |-> else_default]
    ELSE [fn |-> "group_prefixed", _group |-> _group,
          _result_prefix_len |-> _result_prefix_len,
          name |-> SliceFrom(name, Len(_group) + 1),
          then |-> then, else_default |-> else_default]

extract_first_state_field_or_any_group_prefixed_field(_result_prefix_len, name, then, else_default) ==
    [fn |-> "first_state_or_group",
     _result_prefix_len |-> _result_prefix_len,
     name |-> name, then |-> then, else_default |-> else_default]

\* name is NoneV or Str(field)
extract_standalone_first_field_or_regular_field(_result_prefix_len, name, then, else_default) ==
    IF name = NoneV
    THEN [fn |-> "standalone_first", _result_prefix_len |-> _result_prefix_len,
          then |-> then]
    ELSE [fn |-> "standalone_skipped", _result_prefix_len |-> _result_prefix_len,
          name |-> name.val, then |-> then, else_default |-> else_default]

strip_unit_closure(_suffix, then) ==
    [fn |-> "strip_unit", _suffix |-> _suffix, then |-> then]

sdg_strip_unit_closure(unit, then) ==
    [fn |-> "sdg_strip_unit", unit |-> unit, then |-> then]

---------------------------------------------------------------------------
(* The result functions: what a closure c returns for a response *)

regular_field_result(c, response) ==
    find_first_by_key(
        c.name,
        group_by_two(Split(SliceFrom(response, c._result_prefix_len))),
        c.then, c.else_default)

\* sdg.py: for key, value in zip(*2 * [iter(values)]): ... else: else_default
RECURSIVE bswv_loop(_, _)
bswv_loop(c, values) ==
    IF Len(values) < 2 THEN c.else_default
    ELSE IF values[1] = c.name THEN ApplyThen(c.then, values[2])
    ELSE bswv_loop(c, SubSeq(values, 3, Len(values)))

bswv_field_result(c, response) ==
    bswv_loop(c, Split(SliceFrom(response, c.cmd_prefix_len + 1)))

before_group_result(c, response) ==
    LET items == takewhile_not(
                     c._group, Split(SliceFrom(response, c._result_prefix_len)))
    IN find_first_by_key(c.name, group_by_two(items), c.then, c.else_default)

\* iter(...) as an object: it is not a str, whatever it iterates over
ListIterator(tokens) == [tag |-> "list_iterator", val |-> tokens]

\* items is a one-element tuple holding the iterator; the loop runs over the
\* tuple, so item is the iterator object and item == _group compares it with
\* a str
group_prefixed_result(c, response) ==
    LET items == <<ListIterator(Split(SliceFrom(response, c._result_prefix_len)))>>
        loop == ScanFor(Str(c._group), items)
    IN IF ~loop.found
       THEN c.else_default
       ELSE find_first_by_key(c.name, group_by_two(items), c.then, c.else_default)

\* first_state_or_group_result looking for the group among all tokens, the
\* state pair included
first_state_or_group_result_unskipped(c, response) ==
    LET response_items == Split(SliceFrom(response, c._result_prefix_len))
        parts == Split(c.name)
    IN IF Len(response_items) < 2 THEN c.else_default
       ELSE IF c.name = response_items[1] THEN ApplyThen(c.then, response_items[2])
       ELSE IF Len(parts) # 2 THEN Raised("ValueError")
       ELSE LET loop == ScanFor(parts[1], response_items)
            IN IF ~loop.found THEN c.else_default
               ELSE find_first_by_key(parts[2], group_by_two(loop.rest),
                                      c.then, c.else_default)

first_state_or_group_result(c, response) ==
    LET response_items == Split(SliceFrom(response, c._result_prefix_len))
    IN IF Len(response_items) < 2
       THEN c.else_default
       ELSE LET state_key == response_items[1]
                state_value == response_items[2]
                after_state == SubSeq(response_items, 3, Len(response_items))
                parts == Split(c.name)
            IN IF c.name = state_key
               THEN ApplyThen(c.then, state_value)
               ELSE IF Len(parts) # 2
               THEN Raised("ValueError")
               ELSE LET param_group == parts[1]
                        param_name == parts[2]
                        loop == ScanFor(param_group, after_state)
                    IN IF ~loop.found
                       THEN c.else_default
                       ELSE find_first_by_key(param_name, group_by_two(loop.rest),
                                              c.then, c.else_default)

standalone_first_result(c, response) ==
    LET response_items == Split(SliceFrom(response, c._result_prefix_len))
    IN IF response_items = <<>>
       THEN Raised("StopIteration")
       ELSE ApplyThen(c.then, response_items[1])

\* standalone_skipped_result without the next() that discards the first token
standalone_unskipped_result(c, response) ==
    find_first_by_key(c.name,
                      group_by_two(Split(SliceFrom(response, c._result_prefix_len))),
                      c.then, c.else_default)

standalone_skipped_result(c, response) ==
    LET response_items == Split(SliceFrom(response, c._result_prefix_len))
    IN IF response_items = <<>>
       THEN Raised("StopIteration")
       ELSE find_first_by_key(c.name, group_by_two(Tail(response_items)),
                              c.then, c.else_default)

strip_unit_result(c, _s) == strip_unit(c._suffix, c.then, _s)

sdg_strip_unit_result(c, value) == sdg_strip_unit(c.unit, c.then, value)

---------------------------------------------------------------------------
(* Inputs *)

Letters == {"a", "b"}

\* the tokens an instrument sends: empty, one character, two characters
Tokens == {<<>>, <<"a">>, <<"a", "b">>}

TokenSeqs(n) == UNION {[1..k -> Tokens] : k \in 1..n}

\* the echoed command name, and the blank that follows it
CmdPrefix == [i \in 1..CmdPrefixLen |-> "p"]
ResultPrefix == CmdPrefix \o <<" ">>

\* the response carrying the tokens ks; an instrument that sent nothing after
\* the prefix may also have been cut short inside the prefix
ResponsesOf(ks) ==
    {ResultPrefix \o Join(ks)}
    \cup (IF ks = << <<>> >>
          THEN {SubSeq(ResultPrefix, 1, k) : k \in 0..Len(ResultPrefix)}
          ELSE {})

\* field paths: a key, or "group,param"
FieldNames ==
    Tokens
    \cup {g \o <<Comma>> \o p : g \in Tokens, p \in Tokens}

Thens == {"identity", "caller"}

Defaults == {NoneV, Str(<<"a">>)}

Groups == {<<"a">>, <<"a", "b">>}

ExtractorClosures ==
    {extract_regular_field(Len(ResultPrefix), n, t, d) :
        n \in Tokens, t \in Thens, d \in Defaults}
    \cup {extract_bswv_field(Len(CmdPrefix), n, t, d) :
        n \in Tokens, t \in Thens, d \in Defaults}
    \cup UNION {{extract_regular_field_before_group_or_group_prefixed_field(
                    g, Len(ResultPrefix), n, t, d) :
                    n \in FieldNames, t \in Thens, d \in Defaults} : g \in Groups}
    \cup {extract_first_state_field_or_any_group_prefixed_field(
              Len(ResultPrefix), n, t, d) :
        n \in FieldNames, t \in Thens, d \in Defaults}
    \cup {extract_standalone_first_field_or_regular_field(
              Len(ResultPrefix), n, t, d) :
        n \in {NoneV} \cup {Str(k) : k \in Tokens}, t \in Thens, d \in Defaults}

UnitStrings == UNION {[1..k -> Letters] : k \in 0..MaxStrLen}

StripClosures ==
    {strip_unit_closure(u, t) : u \in UnitStrings, t \in Thens}
    \cup {sdg_strip_unit_closure(u, t) : u \in UnitStrings, t \in Thens}

---------------------------------------------------------------------------
(* The state machine: a closure is built, then applied *)

InitWith(n) ==
    /\ result = Unset
    /\ memo = Unset
    /\ \/ /\ ext \in ExtractorClosures
          /\ fields \in TokenSeqs(n)
          /\ arg \in ResponsesOf(fields)
       \/ /\ ext \in StripClosures
          /\ arg \in UnitStrings
          /\ fields = <<arg>>

Init == InitWith(MaxTokens)

\* the first completed application is kept for later comparison; other tells
\* that an application to a different str has completed since
Remember ==
    memo' = IF memo = Unset
            THEN [arg |-> arg, result |-> result', other |-> FALSE]
            ELSE [memo EXCEPT !.other = @ \/ arg # memo.arg]

Returns(fn, value) ==
    /\ ext.fn = fn
    /\ result = Unset
    /\ result' = value
    /\ Remember
    /\ UNCHANGED <<ext, fields, arg>>

ApplyRegularField == Returns("extract_regular_field", regular_field_result(ext, arg))

ApplyBswvField == Returns("extract_bswv_field", bswv_field_result(ext, arg))

ApplyBeforeGroup == Returns("before_group", before_group_result(ext, arg))

ApplyGroupPrefixed == Returns("group_prefixed", group_prefixed_result(ext, arg))

\* ApplyFirstStateOrGroup with the split rebinding the closure's name
ApplyFirstStateOrGroupRebinding ==
    /\ ext.fn = "first_state_or_group"
    /\ result = Unset
    /\ result' = first_state_or_group_result(ext, arg)
    /\ Remember
    /\ ext' = [ext EXCEPT !.name = Split(@)[Len(Split(@))]]
    /\ UNCHANGED <<fields, arg>>

ApplyFirstStateOrGroup ==
    Returns("first_state_or_group", first_state_or_group_result(ext, arg))

ApplyStandaloneFirst == Returns("standalone_first", standalone_first_result(ext, arg))

ApplyStandaloneSkipped ==
    Returns("standalone_skipped", standalone_skipped_result(ext, arg))

ApplyStripUnit == Returns("strip_unit", strip_unit_result(ext, arg))

ApplySdgStripUnit == Returns("sdg_strip_unit", sdg_strip_unit_result(ext, arg))

Next ==
    \/ ApplyRegularField
    \/ ApplyBswvField
    \/ ApplyBeforeGroup
    \/ ApplyGroupPrefixed
    \/ ApplyFirstStateOrGroup
    \/ ApplyStandaloneFirst
    \/ ApplyStandaloneSkipped
    \/ ApplyStripUnit
    \/ ApplySdgStripUnit

Spec == Init /\ [][Next]_vars

---------------------------------------------------------------------------
(* The same extractor applied again and again, once per poll *)

\* the caller holds the extractor and hands it the next response
Reissue(ks, response) ==
    /\ result # Unset
    /\ fields' = ks
    /\ arg' = response
    /\ result' = Unset
    /\ UNCHANGED <<ext, memo>>

InitRepeat ==
    /\ result = Unset
    /\ memo = Unset
    /\ ext \in ExtractorClosures
    /\ fields \in TokenSeqs(MaxRepeatTokens)
    /\ arg \in ResponsesOf(fields)

NextRepeat ==
    \/ ApplyRegularField
    \/ ApplyBswvField
    \/ ApplyBeforeGroup
    \/ ApplyGroupPrefixed
    \/ ApplyFirstStateOrGroup
    \/ ApplyStandaloneFirst
    \/ ApplyStandaloneSkipped
    \/ \E ks \in TokenSeqs(MaxRepeatTokens) :
           \E response \in ResponsesOf(ks) : Reissue(ks, response)

SpecRepeat == InitRepeat /\ [][NextRepeat]_vars

---------------------------------------------------------------------------
(* Vocabulary of the properties, stated over the tokens the instrument sent *)

Applied == result # Unset

\* the transform of the closure under application, applied to a token
TransformOf(v) == [tag |-> IF ext.then = "identity" THEN "str" ELSE "then", val |-> v]

IsRaise(r) == r.tag \in {"ValueError", "StopIteration"}

\* the pairs (ts[2i-1], ts[2i]) keyed key
Hits(ts, key) == {i \in 1..(Len(ts) \div 2) : ts[2 * i - 1] = key}

FirstHit(ts, key) == CHOOSE i \in Hits(ts, key) : \A j \in Hits(ts, key) : i <= j

\* first-match lookup in a pair run, the default of the closure on a miss
PairLookup(ts, key) ==
    IF Hits(ts, key) = {}
    THEN ext.else_default
    ELSE TransformOf(ts[2 * FirstHit(ts, key)])

\* where marker first occurs in ts, Len(ts) + 1 when it does not
MarkerAt(ts, marker) ==
    IF \E i \in 1..Len(ts) : ts[i] = marker
    THEN CHOOSE i \in 1..Len(ts) :
             ts[i] = marker /\ \A j \in 1..(i - 1) : ts[j] # marker
    ELSE Len(ts) + 1

BeforeMarker(ts, marker) == SubSeq(ts, 1, MarkerAt(ts, marker) - 1)

AfterMarker(ts, marker) == SubSeq(ts, MarkerAt(ts, marker) + 1, Len(ts))

\* lookup of param in the pair run that follows the first marker
GroupLookup(ts, marker, param) ==
    IF MarkerAt(ts, marker) > Len(ts)
    THEN ext.else_default
    ELSE PairLookup(AfterMarker(ts, marker), param)

Commas(name) == {i \in 1..Len(name) : name[i] = Comma}

\* a field path "group,param"
IsCompound(name) == Cardinality(Commas(name)) = 1

GroupOf(name) == SubSeq(name, 1, (CHOOSE i \in Commas(name) : TRUE) - 1)

ParamOf(name) == SubSeq(name, (CHOOSE i \in Commas(name) : TRUE) + 1, Len(name))

IsFlat == ext.fn \in {"extract_regular_field", "extract_bswv_field"}

\* the closures of the four layout strategies that look a field up
IsLookup ==
    ext.fn \in {"extract_regular_field", "before_group", "group_prefixed",
                "first_state_or_group", "standalone_skipped"}

PairCount == Len(fields) \div 2

DistinctKeys ==
    /\ Len(fields) % 2 = 0
    /\ \A i, j \in 1..PairCount : i # j => fields[2 * i - 1] # fields[2 * j - 1]

---------------------------------------------------------------------------
(* Lookup misses *)

TokensSent == {fields[i] : i \in 1..Len(fields)}

\* the key a closure was asked for: the param of a "group,param" path
RequestedKey ==
    IF ext.fn = "first_state_or_group" /\ IsCompound(ext.name)
    THEN ParamOf(ext.name)
    ELSE ext.name

\* the group marker a closure was asked to look behind, if any
RequestedMarkers ==
    IF ext.fn = "group_prefixed" THEN {ext._group}
    ELSE IF ext.fn = "first_state_or_group" /\ IsCompound(ext.name)
    THEN {GroupOf(ext.name)}
    ELSE {}

LookupMiss ==
    \/ RequestedKey \notin TokensSent
    \/ \E m \in RequestedMarkers : m \notin TokensSent
    \/ Len(fields) < 2
    \/ Len(arg) <= Len(ResultPrefix)

\* C1: for each of the four layout strategies with a field requested, for
\* every response and field path, a lookup miss (key absent, group marker
\* absent, too-short response) never raises: the application returns the
\* configured default, untransformed.
LookupMissGivesDefault ==
    Applied /\ IsLookup =>
        /\ ~IsRaise(result)
        /\ LookupMiss => result = ext.else_default

---------------------------------------------------------------------------
(* Flat pairs *)

\* C2: for every response <prefix>K1,V1,...,Kn,Vn with pairwise distinct keys,
\* the extractor of extract_regular_field, and the driver's
\* extract_bswv_field, returns transform(Vi) for field Ki, and the configured
\* default for a field equal to none of the keys.
FlatPairsLookup ==
    Applied /\ IsFlat /\ DistinctKeys =>
        /\ \A i \in 1..PairCount :
               ext.name = fields[2 * i - 1] => result = TransformOf(fields[2 * i])
        /\ (\A i \in 1..PairCount : ext.name # fields[2 * i - 1])
               => result = ext.else_default

\* a second pair is found behind a first one that holds another value
FlatPairsLookupWitness ==
    /\ Applied
    /\ ext.fn = "extract_regular_field"
    /\ DistinctKeys
    /\ Len(fields) = 4
    /\ ext.name = fields[3]
    /\ fields[4] # fields[2]
    /\ ext.then = "caller"
    /\ result = TransformOf(fields[4])

---------------------------------------------------------------------------
(* Prefix, then group *)

\* C3: for a marker M and a field path "M,param", the extractor scans the
\* tokens after the prefix one at a time until a token equals M, treats all
\* following tokens as one pair run and returns transform(value) of the first
\* pair keyed param, the default when there is none.
GroupPrefixedLookup ==
    Applied /\ ext.fn = "group_prefixed" =>
        result = GroupLookup(fields, ext._group, ext.name)

\* C5: for a marker M and a field that does not start with "M,", the field is
\* looked up only among the pairs formed from the tokens that precede the
\* first token equal to M: a key that occurs only after the marker is not
\* found, and what follows the marker does not change the result.
BeforeGroupLookup ==
    Applied /\ ext.fn = "before_group" =>
        result = PairLookup(BeforeMarker(fields, ext._group), ext.name)

\* the key is sent only behind the marker, and the default comes back
BeforeGroupLookupWitness ==
    /\ Applied
    /\ ext.fn = "before_group"
    /\ Len(fields) = 5
    /\ MarkerAt(fields, ext._group) = 3
    /\ fields[1] # ext.name
    /\ fields[4] = ext.name
    /\ ext.then = "caller"
    /\ result = ext.else_default

---------------------------------------------------------------------------
(* State, or group *)

\* C4: for tokens S,V,t3,...,tn after the prefix (n >= 2), field S gives
\* transform(V); a path "G,P" gives transform of the value of the first
\* complete pair keyed P among the tokens that follow the first token equal to
\* G in t3..tn, and the default when no such token or no such pair exists;
\* fewer than two tokens give the default.
StateOrGroupLookup ==
    Applied /\ ext.fn = "first_state_or_group" =>
        /\ Len(fields) < 2 => result = ext.else_default
        /\ Len(fields) >= 2 /\ ext.name = fields[1]
               => result = TransformOf(fields[2])
        /\ Len(fields) >= 2 /\ IsCompound(ext.name)
               => result = GroupLookup(SubSeq(fields, 3, Len(fields)),
                                       GroupOf(ext.name), ParamOf(ext.name))

\* a pair is found behind a group marker that follows the state pair
StateOrGroupLookupWitness ==
    /\ Applied
    /\ ext.fn = "first_state_or_group"
    /\ Len(fields) = 5
    /\ IsCompound(ext.name)
    /\ fields[3] = GroupOf(ext.name)
    /\ fields[4] = ParamOf(ext.name)
    /\ fields[2] # fields[5]
    /\ ext.then = "caller"
    /\ result = TransformOf(fields[5])

---------------------------------------------------------------------------
(* Scalar, or pairs *)

\* C6: with no field requested the extractor returns transform(first token
\* after the prefix); with a field requested it discards the first token and
\* looks the field up in the pair run made of the remaining tokens, so the
\* first token is never matched as a key, even when it equals the field.
ScalarOrPairs ==
    Applied =>
        /\ ext.fn = "standalone_first" => result = TransformOf(fields[1])
        /\ ext.fn = "standalone_skipped"
               => result = PairLookup(Tail(fields), ext.name)

\* the first token equals the requested field and is passed over
ScalarOrPairsWitness ==
    /\ Applied
    /\ ext.fn = "standalone_skipped"
    /\ Len(fields) = 3
    /\ fields[1] = ext.name
    /\ fields[2] # ext.name
    /\ ext.then = "caller"
    /\ result = ext.else_default

---------------------------------------------------------------------------
(* Pair runs *)

ScansPairs ==
    ext.fn \in {"extract_regular_field", "extract_bswv_field", "before_group",
                "standalone_skipped"}

\* the tokens a closure pairs up
PairRun ==
    IF ext.fn = "before_group" THEN BeforeMarker(fields, ext._group)
    ELSE IF ext.fn = "standalone_skipped" THEN Tail(fields)
    ELSE fields

\* C7: when the requested key occurs in more than one pair of the run, the
\* result is transform(value of the first such pair); no later pair decides it.
FirstMatchWins ==
    Applied /\ ScansPairs /\ Cardinality(Hits(PairRun, ext.name)) >= 2 =>
        result = TransformOf(PairRun[2 * FirstHit(PairRun, ext.name)])

\* <prefix>K,V1,K,V2 looked up by K gives transform(V1)
FirstMatchWinsWitness ==
    /\ Applied
    /\ ext.fn = "extract_regular_field"
    /\ Len(fields) = 4
    /\ fields[1] = ext.name
    /\ fields[3] = ext.name
    /\ fields[2] # fields[4]
    /\ ext.then = "caller"
    /\ result = TransformOf(fields[2])

\* C8: group_by_two yields complete pairs only: of a run of odd length the
\* last token is dropped, so a dangling trailing key is never matched and
\* never paired with an empty value.
DanglingKeyDropped ==
    Applied /\ ScansPairs /\ ext.fn # "extract_bswv_field"
            /\ Len(PairRun) % 2 = 1 =>
        /\ result = PairLookup(SubSeq(PairRun, 1, Len(PairRun) - 1), ext.name)
        /\ Hits(PairRun, ext.name) = {} => result = ext.else_default

\* <prefix>K1,V1,K2 looked up by K2 gives the default
DanglingKeyDroppedWitness ==
    /\ Applied
    /\ ext.fn = "extract_regular_field"
    /\ Len(fields) = 3
    /\ fields[3] = ext.name
    /\ fields[1] # ext.name
    /\ ext.then = "caller"
    /\ result = ext.else_default

---------------------------------------------------------------------------
(* Unit stripping *)

UnitOf == IF ext.fn = "strip_unit" THEN ext._suffix ELSE ext.unit

\* token without its trailing unit, token itself when it does not end with it
Stripped(token, unit) ==
    IF \E k \in 0..Len(token) : token = SubSeq(token, 1, k) \o unit
    THEN SubSeq(token, 1, Len(token) - Len(unit))
    ELSE token

\* C9: for every token and every unit, the transform built by
\* strip_unit(unit, then=f), in _sdg_response_fields.py and in sdg.py alike,
\* returns f(token with the trailing unit removed) when the token ends with
\* unit and f(token) otherwise, and raises nothing.
StripUnitStrips ==
    Applied /\ ext.fn \in {"strip_unit", "sdg_strip_unit"} =>
        result = TransformOf(Stripped(arg, UnitOf))

---------------------------------------------------------------------------
(* Repeated application *)

---------------------------------------------------------------------------
(* Nothing after the prefix *)

\* the response ends with, or inside, the prefix
NothingAfterPrefix == Len(arg) <= Len(ResultPrefix)

\* C11, as claimed: with no field requested, applying the scalar-or-pairs
\* extractor to a response that has no characters beyond the prefix length
\* raises an error instead of returning a value.
EmptyResponseRaises ==
    Applied /\ ext.fn = "standalone_first" /\ NothingAfterPrefix =>
        IsRaise(result)

\* C11, as amended: with no field requested, a response that has no
\* characters beyond the prefix length splits into one empty token, and the
\* extractor returns transform(empty str); next() raises nothing.
EmptyResponseGivesEmptyToken ==
    Applied /\ ext.fn = "standalone_first" /\ NothingAfterPrefix =>
        /\ ~IsRaise(result)
        /\ result = TransformOf(<<>>)

\* a response cut short inside the prefix has been applied
EmptyResponseGivesEmptyTokenWitness ==
    /\ Applied
    /\ ext.fn = "standalone_first"
    /\ Len(arg) < Len(ResultPrefix)
    /\ ext.then = "caller"
    /\ result = TransformOf(<<>>)

---------------------------------------------------------------------------
(* Group boundaries *)

\* the first token of ts equal to marker sits where a pair's value sits
MarkerIsValue(ts, marker) ==
    MarkerAt(ts, marker) <= Len(ts) /\ MarkerAt(ts, marker) % 2 = 0

AfterState == SubSeq(fields, 3, Len(fields))

\* C12: the group boundary is the first token equal to the marker, also when
\* that token is the value of an unrelated pair: the state-or-group lookup of
\* "G,P" then reads its pair run right behind that value, and the
\* prefix-then-group lookup of a simple field cuts its run right before it, so
\* the key whose value it is is left dangling.
BoundaryByLiteralMatch ==
    Applied =>
        /\ ext.fn = "first_state_or_group" /\ Len(fields) >= 2
               /\ IsCompound(ext.name)
               /\ MarkerIsValue(AfterState, GroupOf(ext.name))
           => LET k == MarkerAt(AfterState, GroupOf(ext.name))
              IN result = PairLookup(SubSeq(AfterState, k + 1, Len(AfterState)),
                                     ParamOf(ext.name))
        /\ ext.fn = "before_group" /\ MarkerIsValue(fields, ext._group)
           => LET k == MarkerAt(fields, ext._group)
              IN result = PairLookup(SubSeq(fields, 1, k - 2), ext.name)

\* S,V,x,G,P,v: G is the value of x, and P is found right behind it
BoundaryByLiteralMatchWitness ==
    /\ Applied
    /\ ext.fn = "first_state_or_group"
    /\ Len(fields) = 6
    /\ IsCompound(ext.name)
    /\ fields[3] # GroupOf(ext.name)
    /\ fields[4] = GroupOf(ext.name)
    /\ fields[5] = ParamOf(ext.name)
    /\ ext.then = "caller"
    /\ result = TransformOf(fields[6])

====
